---- MODULE Spec2Model ----
(***************************************************************************)
(* Release pipeline of scripts/build_and_publish.py: main() and the        *)
(* helpers it calls (run_command, clean_build_artifacts,                   *)
(* check_version_consistency, run_quality_checks, ...).                    *)
(*                                                                         *)
(* Text (file contents, captured output, operator answers) is modelled as  *)
(* sequences of one-character strings, so that str.strip, str.lower and    *)
(* re.search are computed rather than assumed.                             *)
(*                                                                         *)
(* Environment assumptions: an external command always returns an exit     *)
(* code and decodable output; file-system calls do not raise; a            *)
(* successful "python -m build" leaves a dist directory.                   *)
(***************************************************************************)
EXTENDS Integers, Sequences, FiniteSets, TLC

VARIABLES
    pc,         \* position of main(): the step that runs next, or "done"
    args,       \* parsed command line: target, skip_checks, skip_clean
    fs,         \* working directory: the two version files and the artifacts
    log,        \* what the run did so far, in order: stages entered, external
                \* commands issued (with exit code), prompts shown (with answer)
    last,       \* the latest run_command call: arguments, outcome, echo, result
    all_passed, \* accumulator of run_quality_checks
    qi,         \* loop index of run_quality_checks
    vv,         \* result and message of check_version_consistency, once called
    removed,    \* paths clean_build_artifacts reported as removed
    listed,     \* whether the final artifact listing was printed
    exitCode    \* process exit status, NoExit while running

vars == <<pc, args, fs, log, last, all_passed, qi, vv, removed, listed, exitCode>>

-----------------------------------------------------------------------------
(* Bounds of the model *)

\* longest captured stdout / stderr text
MaxOutLen == 2
\* longest operator answer
MaxAnswerLen == 2

NoExit == -1

SeqsUpTo(S, n) == UNION {[1..k -> S] : k \in 0..n}

-----------------------------------------------------------------------------
(* Text *)

Whitespace == {" ", "\n", "\t"}

OutChars == {" ", "w"}
Outputs == SeqsUpTo(OutChars, MaxOutLen)

AnswerChars == {"y", "Y", "n"}
\* input() returns a line, or raises EOFError when stdin is closed
EOF == [eof |-> TRUE, text |-> <<>>]
Line(t) == [eof |-> FALSE, text |-> t]
Answers == {Line(t) : t \in SeqsUpTo(AnswerChars, MaxAnswerLen)} \cup {EOF}

RECURSIVE lstrip(_)
lstrip(s) ==
    IF s # <<>> /\ Head(s) \in Whitespace THEN lstrip(Tail(s)) ELSE s

RECURSIVE rstrip(_)
rstrip(s) ==
    IF s # <<>> /\ s[Len(s)] \in Whitespace
    THEN rstrip(SubSeq(s, 1, Len(s) - 1))
    ELSE s

\* str.strip()
strip(s) == rstrip(lstrip(s))

lower_char(c) ==
    CASE c = "Y" -> "y"
      [] c = "N" -> "n"
      [] OTHER -> c

\* str.lower()
lower(s) == [i \in DOMAIN s |-> lower_char(s[i])]

-----------------------------------------------------------------------------
(* run_command *)

\* exit codes of an external command: success and failure (only "== 0" is tested)
ReturnCodes == {0, 1}

\* what subprocess.run observes of one external command
Outcomes == [returncode : ReturnCodes, stdout : Outputs, stderr : Outputs]

\* the outcomes drawn for the commands of a whole run of main: each stream
\* either silent or one letter
Letter == <<"w">>
RunOutcomes == {o \in Outcomes : {o.stdout, o.stderr} \subseteq {<<>>, Letter}}

EchoLine(tag, text) == [tag |-> tag, text |-> text]

EchoIf(cond, tag, text) == IF cond THEN <<EchoLine(tag, text)>> ELSE <<>>

\* variant of run_command: output on stderr counts as a failure
run_command_stderr_fails(o, check) ==
    IF check /\ o.returncode # 0
    THEN [ret  |-> FALSE,
          echo |-> <<EchoLine("failed", <<>>)>>
                   \o EchoIf(o.stdout # <<>>, "stdout", o.stdout)
                   \o EchoIf(o.stderr # <<>>, "stderr", o.stderr)]
    ELSE IF o.returncode = 0 /\ strip(o.stderr) = <<>>
    THEN [ret  |-> TRUE,
          echo |-> <<EchoLine("completed successfully", <<>>)>>
                   \o EchoIf(strip(o.stdout) # <<>>, "Output", strip(o.stdout))]
    ELSE [ret  |-> FALSE,
          echo |-> <<EchoLine("completed with warnings", <<>>)>>
                   \o EchoIf(strip(o.stdout) # <<>>, "stdout", strip(o.stdout))
                   \o EchoIf(strip(o.stderr) # <<>>, "stderr", strip(o.stderr))]

\* variant of run_command: a CalledProcessError is reported without the
\* captured output
run_command_bare_failure(o, check) ==
    IF check /\ o.returncode # 0
    THEN [ret |-> FALSE, echo |-> <<EchoLine("failed", <<>>)>>]
    ELSE IF o.returncode = 0
    THEN [ret  |-> TRUE,
          echo |-> <<EchoLine("completed successfully", <<>>)>>
                   \o EchoIf(strip(o.stdout) # <<>>, "Output", strip(o.stdout))]
    ELSE [ret  |-> FALSE,
          echo |-> <<EchoLine("completed with warnings", <<>>)>>
                   \o EchoIf(strip(o.stdout) # <<>>, "stdout", strip(o.stdout))
                   \o EchoIf(strip(o.stderr) # <<>>, "stderr", strip(o.stderr))]

\* the lines run_command prints after its banner, and its return value
run_command(o, check) ==
    IF check /\ o.returncode # 0
    THEN \* subprocess.run raised CalledProcessError
         [ret  |-> FALSE,
          echo |-> <<EchoLine("failed", <<>>)>>
                   \o EchoIf(o.stdout # <<>>, "stdout", o.stdout)
                   \o EchoIf(o.stderr # <<>>, "stderr", o.stderr)]
    ELSE IF o.returncode = 0
    THEN [ret  |-> TRUE,
          echo |-> <<EchoLine("completed successfully", <<>>)>>
                   \o EchoIf(strip(o.stdout) # <<>>, "Output", strip(o.stdout))]
    ELSE [ret  |-> o.returncode = 0,
          echo |-> <<EchoLine("completed with warnings", <<>>)>>
                   \o EchoIf(strip(o.stdout) # <<>>, "stdout", strip(o.stdout))
                   \o EchoIf(strip(o.stderr) # <<>>, "stderr", strip(o.stderr))]

-----------------------------------------------------------------------------
(* Files, re.search and check_version_consistency *)

Quote == "\""

VersionStrings == {<<"1", ".", "2", ".", "0">>, <<"1", ".", "1", ".", "9">>}

\* the literal prefix of r'version = "([^"]+)"'
PyprojectPattern == <<"v", "e", "r", "s", "i", "o", "n", " ", "=", " ", Quote>>

\* the literal prefix of r'__version__ = "([^"]+)"'
InitPattern == <<"_", "_">> \o SubSeq(PyprojectPattern, 1, 7) \o <<"_", "_">>
               \o SubSeq(PyprojectPattern, 8, 11)

NameLine == <<"n", "a", "m", "e", " ", "=", " ", Quote, "r", Quote, "\n">>

\* a project manifest declaring version v
ManifestText(v) == NameLine \o PyprojectPattern \o v \o <<Quote, "\n">>

\* a package marker declaring version v
MarkerText(v) == <<"#", "\n">> \o InitPattern \o v \o <<Quote, "\n">>

\* texts holding no version string: no key at all, or an empty value
ManifestTextsNoVersion == {NameLine, NameLine \o PyprojectPattern \o <<Quote, "\n">>}
MarkerTextsNoVersion == {<<"#", "\n">>, InitPattern \o <<Quote, "\n">>}

Missing == [exists |-> FALSE, text |-> <<>>]
File(t) == [exists |-> TRUE, text |-> t]

PyprojectFiles ==
    {Missing} \cup {File(t) : t \in ManifestTextsNoVersion}
              \cup {File(ManifestText(v)) : v \in VersionStrings}

InitFiles ==
    {Missing} \cup {File(t) : t \in MarkerTextsNoVersion}
              \cup {File(MarkerText(v)) : v \in VersionStrings}

NoMatch == [matched |-> FALSE, group1 |-> <<>>]

\* first index >= j of text holding a quote, Len(text) + 1 when there is none
RECURSIVE QuoteFrom(_, _)
QuoteFrom(text, j) ==
    IF j > Len(text) \/ text[j] = Quote THEN j ELSE QuoteFrom(text, j + 1)

\* prefix"([^"]+)" anchored at index i of text
MatchAt(prefix, text, i) ==
    LET j == i + Len(prefix)
        e == QuoteFrom(text, j)
    IN  IF /\ j - 1 <= Len(text)
           /\ SubSeq(text, i, j - 1) = prefix
           /\ e <= Len(text)
           /\ e > j
        THEN [matched |-> TRUE, group1 |-> SubSeq(text, j, e - 1)]
        ELSE NoMatch

\* re.search(prefix + '([^"]+)"', text): the leftmost match
re_search(prefix, text) ==
    LET hits == {i \in 1..Len(text) : MatchAt(prefix, text, i).matched}
    IN  IF hits = {} THEN NoMatch
        ELSE MatchAt(prefix, text, CHOOSE i \in hits : \A k \in hits : i <= k)

\* Python values a function can return
PyBool(b) == <<"bool", b>>
PyStr(s) == <<"str", s>>
PyNone == <<"NoneType", FALSE>>

Message(tag, a, b) == [tag |-> tag, a |-> a, b |-> b]

NotCalled == [ret |-> PyNone, msg |-> Message("", <<>>, <<>>)]

\* variant of check_version_consistency: the two versions are not compared
check_version_presence(f) ==
    IF /\ f.pyproject.exists
       /\ re_search(PyprojectPattern, f.pyproject.text).matched
       /\ f.init.exists
       /\ re_search(InitPattern, f.init.text).matched
    THEN [ret |-> PyBool(TRUE),
          msg |-> Message("Version consistency check passed",
                          re_search(PyprojectPattern, f.pyproject.text).group1, <<>>)]
    ELSE [ret |-> PyBool(FALSE), msg |-> Message("Version not found", <<>>, <<>>)]

\* variant of check_version_consistency: the comparison is inverted
check_version_inverted(f) ==
    LET version_match == re_search(PyprojectPattern, f.pyproject.text)
        init_version_match == re_search(InitPattern, f.init.text)
    IN  IF /\ f.pyproject.exists /\ version_match.matched
           /\ f.init.exists /\ init_version_match.matched
           /\ version_match.group1 # init_version_match.group1
        THEN [ret |-> PyBool(TRUE),
              msg |-> Message("Version consistency check passed",
                              version_match.group1, <<>>)]
        ELSE [ret |-> PyBool(FALSE),
              msg |-> Message("Version mismatch", version_match.group1,
                              init_version_match.group1)]

check_version_consistency(f) ==
    LET version_match == re_search(PyprojectPattern, f.pyproject.text)
        init_version_match == re_search(InitPattern, f.init.text)
        pyproject_version == version_match.group1
        init_version == init_version_match.group1
    IN  IF ~f.pyproject.exists
        THEN [ret |-> PyBool(FALSE),
              msg |-> Message("pyproject.toml not found", <<>>, <<>>)]
        ELSE IF ~version_match.matched
        THEN [ret |-> PyBool(FALSE),
              msg |-> Message("Version not found in pyproject.toml", <<>>, <<>>)]
        ELSE IF ~f.init.exists
        THEN [ret |-> PyBool(FALSE),
              msg |-> Message("ragpack/__init__.py not found", <<>>, <<>>)]
        ELSE IF ~init_version_match.matched
        THEN [ret |-> PyBool(FALSE),
              msg |-> Message("Version not found in ragpack/__init__.py", <<>>, <<>>)]
        ELSE IF pyproject_version # init_version
        THEN [ret |-> PyBool(FALSE),
              msg |-> Message("Version mismatch", pyproject_version, init_version)]
        ELSE [ret |-> PyBool(TRUE),
              msg |-> Message("Version consistency check passed",
                              pyproject_version, <<>>)]

\* Python truth of a returned value, as "if not f():" tests it
Truthy(v) ==
    CASE v[1] = "bool" -> v[2]
      [] v[1] = "str" -> v[2] # <<>>
      [] OTHER -> FALSE

-----------------------------------------------------------------------------
(* clean_build_artifacts *)

Kinds == {"none", "file", "dir"}

\* names in the working directory that the glob "*.egg-info" matches
EggNames == {"ragpack.egg-info", "ragpackai.egg-info"}

\* shutil.rmtree succeeds on a directory only, Path.unlink on a file only
rmtree_ok(kind) == kind = "dir"
unlink_ok(kind) == kind = "file"

Untouched(f) == [fs |-> f, removed |-> {}, error |-> FALSE]

\* the else branch of the loop, for pattern p: "build" or "dist"
clean_path(acc, p) ==
    IF acc.error \/ acc.fs[p] = "none"
    THEN acc
    ELSE LET ok == IF acc.fs[p] = "dir"
                   THEN rmtree_ok(acc.fs[p])
                   ELSE unlink_ok(acc.fs[p])
         IN  [fs |-> IF ok THEN [acc.fs EXCEPT ![p] = "none"] ELSE acc.fs,
              removed |-> acc.removed \cup {p},
              error |-> ~ok]

\* the branch of the loop for "*.egg-info": the matching directories
clean_egg_info(acc) ==
    IF acc.error
    THEN acc
    ELSE LET eggs == {n \in EggNames : acc.fs.egg[n] = "dir"}
             gone == {n \in eggs : rmtree_ok(acc.fs.egg[n])}
         IN  [fs |-> [acc.fs EXCEPT !.egg = [n \in EggNames |->
                        IF n \in gone THEN "none" ELSE acc.fs.egg[n]]],
              removed |-> acc.removed \cup eggs,
              error |-> gone # eggs]

\* variant of clean_build_artifacts: whatever exists is removed with rmtree
clean_build_artifacts_rmtree_only(f) ==
    LET rm(acc, p) ==
          IF acc.error \/ acc.fs[p] = "none"
          THEN acc
          ELSE [fs |-> IF rmtree_ok(acc.fs[p])
                       THEN [acc.fs EXCEPT ![p] = "none"] ELSE acc.fs,
                removed |-> acc.removed \cup {p},
                error |-> ~rmtree_ok(acc.fs[p])]
    IN  clean_egg_info(rm(rm(Untouched(f), "build"), "dist"))

\* the tree left behind, the paths reported as removed, and whether a
\* removal raised (which ends the loop there)
clean_build_artifacts(f) ==
    clean_egg_info(clean_path(clean_path(Untouched(f), "build"), "dist"))

-----------------------------------------------------------------------------
(* main: state after argument parsing *)

Targets == {"build", "test-pypi", "pypi"}

Args == [target : Targets, skip_checks : BOOLEAN, skip_clean : BOOLEAN]

\* build, dist and the egg-info entry of the working directory
ArtifactTrees == [build : Kinds, dist : Kinds, egg : [EggNames -> Kinds]]

\* the trees a run of main starts from: a fresh checkout, the leftovers of an
\* earlier build, and plain files where the directories are expected
InitialTrees ==
    {t \in ArtifactTrees :
        \/ t.build = "none" /\ t.dist = "none" /\ \A n \in EggNames : t.egg[n] = "none"
        \/ t.build = "dir" /\ t.dist = "dir" /\ \A n \in EggNames : t.egg[n] = "dir"
        \/ t.build = "none" /\ t.dist = "file" /\ \A n \in EggNames : t.egg[n] = "file"}

Tree(f, t) ==
    [pyproject |-> f[1], init |-> f[2],
     build |-> t.build, dist |-> t.dist, egg |-> t.egg]

NoCall ==
    [command |-> "", check |-> FALSE,
     outcome |-> [returncode |-> 0, stdout |-> <<>>, stderr |-> <<>>],
     echo |-> <<>>, ret |-> FALSE]

Init ==
    /\ pc = "clean"
    /\ args \in Args
    /\ fs \in {Tree(f, t) : f \in PyprojectFiles \X InitFiles, t \in InitialTrees}
    /\ log = <<>>
    /\ last = NoCall
    /\ all_passed = TRUE
    /\ qi = 1
    /\ vv = NotCalled
    /\ removed = {}
    /\ listed = FALSE
    /\ exitCode = NoExit

-----------------------------------------------------------------------------
(* main: the external commands *)

checks ==
    <<[command |-> "black --check ragpack tests examples scripts",
       description |-> "Code formatting check"],
      [command |-> "flake8 ragpack tests examples scripts",
       description |-> "Linting check"],
      [command |-> "mypy ragpack --ignore-missing-imports",
       description |-> "Type checking"]>>

QualityCommands == {checks[i].command : i \in DOMAIN checks}
TestCommand == "pytest tests/ -v --tb=short"
BuildCommand == "python -m build"
CheckCommand == "twine check dist/*"
TestPypiUploadCommand == "twine upload --repository testpypi dist/*"
PypiUploadCommand == "twine upload dist/*"
UploadCommands == {TestPypiUploadCommand, PypiUploadCommand}

ContinuePrompt == "Continue anyway? (y/N): "
PypiPrompt == "Are you sure you want to continue? (y/N): "

\* entries of log
Stage(name) ==
    [kind |-> "stage", name |-> name, returncode |-> 0, answer |-> Line(<<>>)]
Command(command, o) ==
    [kind |-> "command", name |-> command, returncode |-> o.returncode,
     answer |-> Line(<<>>)]
Prompt(prompt, a) ==
    [kind |-> "prompt", name |-> prompt, returncode |-> 0, answer |-> a]

Logged(events) == log' = log \o events

\* subprocess.run(command) observed o, and run_command returned r
Ran(command, check, o, r) ==
    last' = [command |-> command, check |-> check, outcome |-> o,
             echo |-> r.echo, ret |-> r.ret]

\* variant of agreed: anything but "n" is taken as consent
agreed_unless_no(a) == ~a.eof /\ lower(a.text) # <<"n">>

\* "response.lower() != 'y'" is false: the operator agreed
agreed(a) == ~a.eof /\ lower(a.text) = <<"y">>

\* sys.exit(code), or an uncaught exception (exit status 1)
Exit(code) == pc' = "done" /\ exitCode' = code

Goto(label) == pc' = label /\ UNCHANGED exitCode

run_tests(o) == run_command(o, TRUE)
build_package(o) == run_command(o, TRUE)
check_package(o) == run_command(o, TRUE)
upload_to_test_pypi(o) == run_command(o, TRUE)
upload_to_pypi(o) == run_command(o, TRUE)

-----------------------------------------------------------------------------
(* main: one action per step *)

\* variant of main_clean: the test of --skip-clean is inverted
main_clean_inverted ==
    /\ pc = "clean"
    /\ IF args.skip_clean
       THEN LET c == clean_build_artifacts(fs)
            IN  /\ fs' = c.fs
                /\ removed' = c.removed
                /\ Logged(<<Stage("Clean")>>)
                /\ IF c.error THEN Exit(1) ELSE Goto("version")
       ELSE UNCHANGED <<fs, removed, log>> /\ Goto("version")
    /\ UNCHANGED <<args, last, all_passed, qi, vv, listed>>

\* Step 1: clean build artifacts, unless --skip-clean
main_clean ==
    /\ pc = "clean"
    /\ IF ~args.skip_clean
       THEN LET c == clean_build_artifacts(fs)
            IN  /\ fs' = c.fs
                /\ removed' = c.removed
                /\ Logged(<<Stage("Clean")>>)
                /\ IF c.error THEN Exit(1) ELSE Goto("version")
       ELSE UNCHANGED <<fs, removed, log>> /\ Goto("version")
    /\ UNCHANGED <<args, last, all_passed, qi, vv, listed>>

\* variant of main_check_version: --skip-checks skips the quality checks only
main_check_version_tests_kept ==
    /\ pc = "version"
    /\ LET r == check_version_consistency(fs)
       IN  /\ vv' = r
           /\ IF ~Truthy(r.ret)
              THEN Exit(1)
              ELSE Goto(IF ~args.skip_checks THEN "quality" ELSE "tests")
    /\ Logged(<<Stage("VerifyVersion")>>)
    /\ UNCHANGED <<args, fs, last, all_passed, qi, removed, listed>>

\* Step 2: check version consistency; then Step 3's test of --skip-checks
main_check_version ==
    /\ pc = "version"
    /\ LET r == check_version_consistency(fs)
       IN  /\ vv' = r
           /\ IF ~Truthy(r.ret)
              THEN Exit(1)
              ELSE Goto(IF ~args.skip_checks THEN "quality" ELSE "build")
    /\ Logged(<<Stage("VerifyVersion")>>)
    /\ UNCHANGED <<args, fs, last, all_passed, qi, removed, listed>>

\* variant of main_quality_check: the loop stops at the first failed check
main_quality_check_until_failure ==
    /\ pc = "quality"
    /\ qi \in DOMAIN checks
    /\ \E o \in RunOutcomes :
         LET r == run_command(o, FALSE)
             passed == IF ~r.ret THEN FALSE ELSE all_passed
         IN  /\ Ran(checks[qi].command, FALSE, o, r)
             /\ Logged((IF qi = 1 THEN <<Stage("QualityChecks")>> ELSE <<>>)
                       \o <<Command(checks[qi].command, o)>>)
             /\ all_passed' = passed
             /\ qi' = qi + 1
             /\ IF qi < Len(checks) /\ passed
                THEN Goto("quality")
                ELSE Goto(IF ~passed THEN "quality_prompt" ELSE "tests")
    /\ UNCHANGED <<args, fs, vv, removed, listed>>

\* Step 3: one iteration of the loop of run_quality_checks; after the last
\* one, main tests the returned all_passed
main_quality_check ==
    /\ pc = "quality"
    /\ qi \in DOMAIN checks
    /\ \E o \in RunOutcomes :
         LET r == run_command(o, FALSE)
             passed == IF ~r.ret THEN FALSE ELSE all_passed
         IN  /\ Ran(checks[qi].command, FALSE, o, r)
             /\ Logged((IF qi = 1 THEN <<Stage("QualityChecks")>> ELSE <<>>)
                       \o <<Command(checks[qi].command, o)>>)
             /\ all_passed' = passed
             /\ qi' = qi + 1
             /\ IF qi < Len(checks)
                THEN Goto("quality")
                ELSE Goto(IF ~passed THEN "quality_prompt" ELSE "tests")
    /\ UNCHANGED <<args, fs, vv, removed, listed>>

\* Step 3, quality checks failed: "Continue anyway?"
main_quality_prompt ==
    /\ pc = "quality_prompt"
    /\ \E a \in Answers :
         /\ Logged(<<Prompt(ContinuePrompt, a)>>)
         /\ IF ~agreed(a) THEN Exit(1) ELSE Goto("tests")
    /\ UNCHANGED <<args, fs, last, all_passed, qi, vv, removed, listed>>

\* variant of main_run_tests: an override given for the quality checks also
\* covers failed tests
main_run_tests_override_kept ==
    /\ pc = "tests"
    /\ \E o \in RunOutcomes :
         LET r == run_tests(o)
         IN  /\ Ran(TestCommand, TRUE, o, r)
             /\ Logged(<<Stage("Tests"), Command(TestCommand, o)>>)
             /\ Goto(IF ~r.ret /\ all_passed THEN "tests_prompt" ELSE "build")
    /\ UNCHANGED <<args, fs, all_passed, qi, vv, removed, listed>>

\* Step 4: run tests
main_run_tests ==
    /\ pc = "tests"
    /\ \E o \in RunOutcomes :
         LET r == run_tests(o)
         IN  /\ Ran(TestCommand, TRUE, o, r)
             /\ Logged(<<Stage("Tests"), Command(TestCommand, o)>>)
             /\ Goto(IF ~r.ret THEN "tests_prompt" ELSE "build")
    /\ UNCHANGED <<args, fs, all_passed, qi, vv, removed, listed>>

\* Step 4, tests failed: "Continue anyway?"
main_tests_prompt ==
    /\ pc = "tests_prompt"
    /\ \E a \in Answers :
         /\ Logged(<<Prompt(ContinuePrompt, a)>>)
         /\ IF ~agreed(a) THEN Exit(1) ELSE Goto("build")
    /\ UNCHANGED <<args, fs, last, all_passed, qi, vv, removed, listed>>

\* variant of main_build: the result of build_package is not tested
main_build_unchecked ==
    /\ pc = "build"
    /\ \E o \in RunOutcomes :
         LET r == build_package(o)
         IN  /\ Ran(BuildCommand, TRUE, o, r)
             /\ Logged(<<Stage("Build"), Command(BuildCommand, o)>>)
             /\ fs' = IF o.returncode = 0 THEN [fs EXCEPT !.dist = "dir"] ELSE fs
             /\ Goto("check")
    /\ UNCHANGED <<args, all_passed, qi, vv, removed, listed>>

\* Step 5: build package
main_build ==
    /\ pc = "build"
    /\ \E o \in RunOutcomes :
         LET r == build_package(o)
         IN  /\ Ran(BuildCommand, TRUE, o, r)
             /\ Logged(<<Stage("Build"), Command(BuildCommand, o)>>)
             /\ fs' = IF o.returncode = 0 THEN [fs EXCEPT !.dist = "dir"] ELSE fs
             /\ IF ~r.ret THEN Exit(1) ELSE Goto("check")
    /\ UNCHANGED <<args, all_passed, qi, vv, removed, listed>>

\* variant of main_check_package: the result of check_package is not tested
main_check_package_unchecked ==
    /\ pc = "check"
    /\ \E o \in RunOutcomes :
         LET r == check_package(o)
         IN  /\ Ran(CheckCommand, TRUE, o, r)
             /\ Logged(<<Stage("CheckPackage"), Command(CheckCommand, o)>>)
             /\ Goto("publish")
    /\ UNCHANGED <<args, fs, all_passed, qi, vv, removed, listed>>

\* Step 6: check package
main_check_package ==
    /\ pc = "check"
    /\ \E o \in RunOutcomes :
         LET r == check_package(o)
         IN  /\ Ran(CheckCommand, TRUE, o, r)
             /\ Logged(<<Stage("CheckPackage"), Command(CheckCommand, o)>>)
             /\ IF ~r.ret THEN Exit(1) ELSE Goto("publish")
    /\ UNCHANGED <<args, fs, all_passed, qi, vv, removed, listed>>

\* variant of main_upload_test_pypi: taken for every target but pypi
main_upload_test_pypi_by_default ==
    /\ pc = "publish"
    /\ args.target # "pypi"
    /\ \E o \in RunOutcomes :
         LET r == upload_to_test_pypi(o)
         IN  /\ Ran(TestPypiUploadCommand, TRUE, o, r)
             /\ Logged(<<Stage("Publish"), Command(TestPypiUploadCommand, o)>>)
             /\ IF ~r.ret THEN Exit(1) ELSE Goto("artifacts")
    /\ UNCHANGED <<args, fs, all_passed, qi, vv, removed, listed>>

\* Step 7, target test-pypi
main_upload_test_pypi ==
    /\ pc = "publish"
    /\ args.target = "test-pypi"
    /\ \E o \in RunOutcomes :
         LET r == upload_to_test_pypi(o)
         IN  /\ Ran(TestPypiUploadCommand, TRUE, o, r)
             /\ Logged(<<Stage("Publish"), Command(TestPypiUploadCommand, o)>>)
             /\ IF ~r.ret THEN Exit(1) ELSE Goto("artifacts")
    /\ UNCHANGED <<args, fs, all_passed, qi, vv, removed, listed>>

\* Step 7, target pypi: the confirmation
main_confirm_pypi ==
    /\ pc = "publish"
    /\ args.target # "test-pypi"
    /\ args.target = "pypi"
    /\ \E a \in Answers :
         /\ Logged(<<Stage("Publish"), Prompt(PypiPrompt, a)>>)
         /\ IF ~agreed(a) THEN Exit(1) ELSE Goto("upload_pypi")
    /\ UNCHANGED <<args, fs, last, all_passed, qi, vv, removed, listed>>

\* Step 7, target pypi: the upload
main_upload_pypi ==
    /\ pc = "upload_pypi"
    /\ \E o \in RunOutcomes :
         LET r == upload_to_pypi(o)
         IN  /\ Ran(PypiUploadCommand, TRUE, o, r)
             /\ Logged(<<Command(PypiUploadCommand, o)>>)
             /\ IF ~r.ret THEN Exit(1) ELSE Goto("artifacts")
    /\ UNCHANGED <<args, fs, all_passed, qi, vv, removed, listed>>

\* Step 7, build only
main_build_only ==
    /\ pc = "publish"
    /\ args.target \notin {"test-pypi", "pypi"}
    /\ Logged(<<Stage("Publish")>>)
    /\ Goto("artifacts")
    /\ UNCHANGED <<args, fs, last, all_passed, qi, vv, removed, listed>>

\* Show build artifacts, then return: exit status 0
main_show_artifacts ==
    /\ pc = "artifacts"
    /\ listed' = (fs.dist # "none")
    /\ Exit(0)
    /\ UNCHANGED <<args, fs, log, last, all_passed, qi, vv, removed>>

Next ==
    \/ main_clean
    \/ main_check_version
    \/ main_quality_check
    \/ main_quality_prompt
    \/ main_run_tests
    \/ main_tests_prompt
    \/ main_build
    \/ main_check_package
    \/ main_upload_test_pypi
    \/ main_confirm_pypi
    \/ main_upload_pypi
    \/ main_build_only
    \/ main_show_artifacts

Spec == Init /\ [][Next]_vars

-----------------------------------------------------------------------------
(* run_command on its own: every outcome, both values of check *)

InitRunCommand ==
    /\ pc = "run_command"
    /\ \E o \in Outcomes, check \in BOOLEAN :
         last = [NoCall EXCEPT !.command = BuildCommand, !.check = check,
                               !.outcome = o]
    /\ args = [target |-> "build", skip_checks |-> FALSE, skip_clean |-> FALSE]
    /\ fs = Tree(<<Missing, Missing>>, CHOOSE t \in InitialTrees : t.dist = "none")
    /\ log = <<>>
    /\ all_passed = TRUE
    /\ qi = 1
    /\ vv = NotCalled
    /\ removed = {}
    /\ listed = FALSE
    /\ exitCode = NoExit

\* run_command(last.command, ..., last.check) observes last.outcome and returns
call_run_command ==
    /\ pc = "run_command"
    /\ LET r == run_command(last.outcome, last.check)
       IN  /\ Ran(last.command, last.check, last.outcome, r)
           /\ Logged(<<Command(last.command, last.outcome)>>)
    /\ pc' = "returned"
    /\ UNCHANGED <<args, fs, all_passed, qi, vv, removed, listed, exitCode>>

NextRunCommand == call_run_command

SpecRunCommand == InitRunCommand /\ [][NextRunCommand]_vars

-----------------------------------------------------------------------------
(* clean_build_artifacts on its own: twice in a row, from every tree *)

InitClean ==
    /\ pc = "clean_1"
    /\ fs \in {Tree(<<Missing, Missing>>, t) : t \in ArtifactTrees}
    /\ args = [target |-> "build", skip_checks |-> FALSE, skip_clean |-> FALSE]
    /\ log = <<>>
    /\ last = NoCall
    /\ all_passed = TRUE
    /\ qi = 1
    /\ vv = NotCalled
    /\ removed = {}
    /\ listed = FALSE
    /\ exitCode = NoExit

\* one call of clean_build_artifacts(): the first, then the second
call_clean ==
    /\ pc \in {"clean_1", "clean_2"}
    /\ LET c == clean_build_artifacts(fs)
       IN  /\ fs' = c.fs
           /\ removed' = c.removed
           /\ pc' = IF c.error THEN "raised"
                    ELSE IF pc = "clean_1" THEN "clean_2" ELSE "cleaned"
    /\ Logged(<<Stage("Clean")>>)
    /\ UNCHANGED <<args, last, all_passed, qi, vv, listed, exitCode>>

NextClean == call_clean

SpecClean == InitClean /\ [][NextClean]_vars

-----------------------------------------------------------------------------
(* Vocabulary of the properties *)

IsCommand(i, names) == log[i].kind = "command" /\ log[i].name \in names
IsPrompt(i, name) == log[i].kind = "prompt" /\ log[i].name = name
IsStage(i, names) == log[i].kind = "stage" /\ log[i].name \in names

Issued(names) == \E i \in DOMAIN log : IsCommand(i, names)
AnyCommandIssued == \E i \in DOMAIN log : log[i].kind = "command"
Entered(name) == \E i \in DOMAIN log : IsStage(i, {name})

Halted == pc = "done" /\ exitCode = 1
Success == pc = "done" /\ exitCode = 0

Yes == {Line(<<"y">>), Line(<<"Y">>)}

-----------------------------------------------------------------------------
(* C1 *)

\* C1, as stated: with --target pypi, once the production confirmation was
\* answered, the answer "y" and no other leads to the production upload;
\* any other answer has ended the run with exit code 1 and no upload.
C1_OnlyLowercaseY ==
    args.target = "pypi" =>
      \A i \in DOMAIN log : IsPrompt(i, PypiPrompt) =>
        IF log[i].answer = Line(<<"y">>)
        THEN pc = "upload_pypi" \/ Issued({PypiUploadCommand})
        ELSE Halted /\ ~Issued(UploadCommands)

\* C1, amended: with --target pypi the production upload command is issued
\* only after the production confirmation was answered "y" or "Y"; after
\* that answer the upload is the next step; after any other answer (or end
\* of input) the run has ended with exit code 1 and neither upload command
\* was issued. The staging upload is never issued.
C1_ProductionUploadNeedsConsent ==
    args.target = "pypi" =>
      /\ ~Issued({TestPypiUploadCommand})
      /\ Issued({PypiUploadCommand}) =>
           \E i \in DOMAIN log : IsPrompt(i, PypiPrompt) /\ log[i].answer \in Yes
      /\ \A i \in DOMAIN log : IsPrompt(i, PypiPrompt) =>
           IF log[i].answer \in Yes
           THEN pc = "upload_pypi" \/ Issued({PypiUploadCommand})
           ELSE Halted /\ ~Issued(UploadCommands) /\ i = Len(log)

C1_Witness ==
    /\ args.target = "pypi"
    /\ Issued({PypiUploadCommand})
    /\ \E i \in DOMAIN log : IsPrompt(i, PypiPrompt) /\ log[i].answer = Line(<<"Y">>)

-----------------------------------------------------------------------------
(* C2 *)

\* C2: a build command that exited non-zero is the last thing the run did
\* (no prompt, no package check, no upload after it), and the run has ended
\* with exit code 1.
C2_BuildFailureIsFatal ==
    \A i \in DOMAIN log :
      (IsCommand(i, {BuildCommand}) /\ log[i].returncode # 0) =>
        /\ Halted
        /\ i = Len(log)
        /\ ~Issued({CheckCommand} \cup UploadCommands)

\* a failed build, in a run where failed tests had been overridden
C2_Witness ==
    /\ \E i \in DOMAIN log : IsCommand(i, {BuildCommand}) /\ log[i].returncode # 0
    /\ \E i \in DOMAIN log : IsPrompt(i, ContinuePrompt)
    /\ args.target = "pypi"

-----------------------------------------------------------------------------
(* C3 *)

\* the version files of the run are not a manifest and a marker declaring
\* the same version
BadVersionFiles ==
    \/ ~fs.pyproject.exists
    \/ ~fs.init.exists
    \/ fs.pyproject.text \in ManifestTextsNoVersion
    \/ fs.init.text \in MarkerTextsNoVersion
    \/ \E v, w \in VersionStrings :
         /\ v # w
         /\ fs.pyproject.text = ManifestText(v)
         /\ fs.init.text = MarkerText(w)

\* C3: with a missing file, a file without version string or two differing
\* versions, no external command is ever invoked, and once VerifyVersion ran
\* the run has ended with exit code 1 right there, whatever the arguments.
C3_BadVersionHaltsBeforeAnyCommand ==
    BadVersionFiles =>
      /\ ~AnyCommandIssued
      /\ pc \in {"clean", "version", "done"}
      /\ pc = "done" =>
           /\ exitCode = 1
           /\ log[Len(log)] = Stage("VerifyVersion")
           /\ vv.ret = PyBool(FALSE)

\* the mismatch "1.2.0" vs "1.1.9" halted a run that would have skipped checks
C3_Witness ==
    /\ Halted
    /\ fs.pyproject.text = ManifestText(<<"1", ".", "2", ".", "0">>)
    /\ fs.init.text = MarkerText(<<"1", ".", "1", ".", "9">>)
    /\ args.skip_checks /\ args.skip_clean /\ args.target = "pypi"

-----------------------------------------------------------------------------
(* C4 *)

\* C4: with --skip-checks no quality-check or test command is invoked, no
\* "continue anyway" prompt is shown, neither stage is entered, and what
\* follows VerifyVersion is Build.
C4_SkipChecksSkipsBothStages ==
    args.skip_checks =>
      /\ ~Issued(QualityCommands \cup {TestCommand})
      /\ \A i \in DOMAIN log :
           /\ ~IsPrompt(i, ContinuePrompt)
           /\ ~IsStage(i, {"QualityChecks", "Tests"})
           /\ (IsStage(i, {"VerifyVersion"}) /\ i < Len(log)) =>
                log[i + 1] = Stage("Build")
      /\ pc \notin {"quality", "quality_prompt", "tests", "tests_prompt"}
      /\ (Entered("VerifyVersion") /\ pc # "done") =>
           (pc = "build" \/ Entered("Build"))

C4_Witness == args.skip_checks /\ Issued({BuildCommand}) /\ Success

-----------------------------------------------------------------------------
(* C5 *)

\* the version both files declare, when they declare the same one
AgreedVersions ==
    {v \in VersionStrings :
        fs.pyproject.text = ManifestText(v) /\ fs.init.text = MarkerText(v)}

\* C5, as stated: called on files declaring the same version,
\* check_version_consistency returns that version string.
C5_ReturnsTheVersion ==
    \A v \in AgreedVersions : vv # NotCalled => vv.ret = PyStr(v)

\* C5, amended: called on files declaring the same version,
\* check_version_consistency succeeds by returning True, and reports the
\* agreed version in its message; the run does not halt there.
C5_ReturnsTrueAndReportsTheVersion ==
    \A v \in AgreedVersions :
      vv # NotCalled =>
        /\ vv.ret = PyBool(TRUE)
        /\ vv.msg = Message("Version consistency check passed", v, <<>>)
        /\ pc # "done" \/ log[Len(log)] # Stage("VerifyVersion")

C5_Witness ==
    /\ <<"1", ".", "2", ".", "0">> \in AgreedVersions
    /\ vv.ret = PyBool(TRUE)
    /\ pc = "build"

-----------------------------------------------------------------------------
(* C6 *)

LastQualityCommand == checks[Len(checks)].command

QualityFailedBefore(i) ==
    \E j \in 1..i : IsCommand(j, QualityCommands) /\ log[j].returncode # 0

\* the log entry i ends a failed non-critical stage
FailedStageEndsAt(i) ==
    \/ IsCommand(i, {LastQualityCommand}) /\ QualityFailedBefore(i)
    \/ IsCommand(i, {TestCommand}) /\ log[i].returncode # 0

\* what the run does next after the prompt at entry i was accepted
ResumesAfter(i) ==
    IF log[i - 1].name = TestCommand
    THEN IF i = Len(log) THEN pc = "build" ELSE log[i + 1] = Stage("Build")
    ELSE IF i = Len(log) THEN pc = "tests" ELSE log[i + 1] = Stage("Tests")

\* the prompt follows every failed non-critical stage, and nothing else
PromptFollowsFailure ==
    \A i \in DOMAIN log :
      /\ FailedStageEndsAt(i) =>
           IF i = Len(log)
           THEN pc \in {"quality_prompt", "tests_prompt"}
           ELSE IsPrompt(i + 1, ContinuePrompt)
      /\ IsPrompt(i, ContinuePrompt) => i > 1 /\ FailedStageEndsAt(i - 1)

\* C6, as stated: a failed quality-check or test stage prompts the operator;
\* any answer other than "y" ends the run at once with exit code 1, and "y"
\* continues with the next stage; each failed stage gets its own prompt.
C6_OnlyLowercaseYContinues ==
    /\ PromptFollowsFailure
    /\ \A i \in DOMAIN log : IsPrompt(i, ContinuePrompt) =>
         IF log[i].answer = Line(<<"y">>)
         THEN ResumesAfter(i)
         ELSE Halted /\ i = Len(log)

\* C6, amended: as stated, with "y" or "Y" as the answers that continue.
C6_OverridePerFailedStage ==
    /\ PromptFollowsFailure
    /\ \A i \in DOMAIN log : IsPrompt(i, ContinuePrompt) =>
         IF log[i].answer \in Yes
         THEN ResumesAfter(i)
         ELSE Halted /\ i = Len(log)

\* both stages failed; the first prompt was accepted, the second declined
C6_Witness ==
    \E i, j \in DOMAIN log :
      /\ i < j
      /\ IsPrompt(i, ContinuePrompt) /\ log[i].answer = Line(<<"y">>)
      /\ IsPrompt(j, ContinuePrompt) /\ log[j].answer = Line(<<"n">>)
      /\ Halted

-----------------------------------------------------------------------------
(* C7 *)

\* C7: no upload with target build; with target test-pypi (pypi) only the
\* staging (production) upload; a failed upload is the last thing the run
\* did, and the run has ended with exit code 1.
C7_UploadsFollowTheTarget ==
    /\ args.target = "build" => ~Issued(UploadCommands)
    /\ args.target = "test-pypi" => ~Issued({PypiUploadCommand})
    /\ args.target = "pypi" => ~Issued({TestPypiUploadCommand})
    /\ \A i \in DOMAIN log :
         (IsCommand(i, UploadCommands) /\ log[i].returncode # 0) =>
           Halted /\ i = Len(log)

C7_Witness ==
    /\ args.target = "test-pypi"
    /\ \E i \in DOMAIN log :
         IsCommand(i, {TestPypiUploadCommand}) /\ log[i].returncode # 0
    /\ Halted

-----------------------------------------------------------------------------
(* C8 *)

\* quality-check commands run_quality_checks has issued so far
ChecksDone == IF pc = "quality" THEN qi - 1 ELSE Len(checks)

\* C8: run_quality_checks issues the three commands, in order and one after
\* the other whatever their exit codes, and the value it returns
\* (all_passed) is true exactly when all three exited with code 0.
C8_AllChecksRunAndAggregate ==
    /\ pc = "quality" => qi \in DOMAIN checks
    /\ \A k \in DOMAIN log : IsStage(k, {"QualityChecks"}) =>
         /\ Len(log) >= k + ChecksDone
         /\ \A m \in 1..ChecksDone : IsCommand(k + m, {checks[m].command})
         /\ \A i \in DOMAIN log :
              IsCommand(i, QualityCommands) => i \in (k + 1)..(k + ChecksDone)
         /\ all_passed = (\A m \in 1..ChecksDone : log[k + m].returncode = 0)

\* the first check failed, the two others ran and passed, the result is false
C8_Witness ==
    \E k \in DOMAIN log :
      /\ IsStage(k, {"QualityChecks"})
      /\ pc = "quality_prompt"
      /\ log[k + 1].returncode # 0
      /\ log[k + 2].returncode = 0
      /\ log[k + 3].returncode = 0
      /\ ~all_passed

-----------------------------------------------------------------------------
(* C9 *)

\* one of the events that end a run with exit code 1 has occurred
HaltReason ==
    \/ Entered("VerifyVersion") /\ BadVersionFiles
    \/ \E i \in DOMAIN log :
         \/ IsPrompt(i, ContinuePrompt) /\ log[i].answer \notin Yes
         \/ IsPrompt(i, PypiPrompt) /\ log[i].answer \notin Yes
         \/ /\ IsCommand(i, {BuildCommand, CheckCommand} \cup UploadCommands)
            /\ log[i].returncode # 0

\* C9: a run is over exactly when it has an exit code, which is 0 or 1; it is
\* over exactly when no step is left to take; the exit code is 1 exactly when
\* version verification failed, a prompt was declined, or the build, the
\* package check or an upload failed, and such an event ends the run at once.
C9_ExitCodeMatchesOutcome ==
    /\ exitCode \in {NoExit, 0, 1}
    /\ (pc = "done") <=> (exitCode # NoExit)
    /\ (pc = "done") <=> ~ENABLED Next
    /\ pc = "done" => ((exitCode = 1) <=> HaltReason)
    /\ pc # "done" => ~HaltReason

\* exit code 0 although quality checks and tests failed: both were overridden
C9_Witness ==
    /\ Success
    /\ \E i, j \in DOMAIN log :
         /\ i < j
         /\ IsPrompt(i, ContinuePrompt)
         /\ IsPrompt(j, ContinuePrompt)

-----------------------------------------------------------------------------
(* C10, under SpecRunCommand *)

\* the echo of the latest run_command call shows text under one of the tags
Shown(tags, text) ==
    \E k \in DOMAIN last.echo :
      last.echo[k].tag \in tags /\ last.echo[k].text \in {text, strip(text)}

\* C10, as stated: whatever the exit code, captured stdout and captured stderr
\* are each echoed when they hold visible text.
C10_BothStreamsAlwaysEchoed ==
    pc = "returned" =>
      /\ strip(last.outcome.stdout) # <<>> =>
           Shown({"Output", "stdout"}, last.outcome.stdout)
      /\ strip(last.outcome.stderr) # <<>> =>
           Shown({"stderr"}, last.outcome.stderr)

\* C10, amended: captured stdout is echoed whenever it holds visible text,
\* whatever the exit code; captured stderr is echoed whenever it holds
\* visible text and the exit code is not 0; the stderr of a command that
\* exited 0 is never echoed.
C10_StderrEchoedOnlyOnFailure ==
    pc = "returned" =>
      /\ strip(last.outcome.stdout) # <<>> =>
           Shown({"Output", "stdout"}, last.outcome.stdout)
      /\ (strip(last.outcome.stderr) # <<>> /\ last.outcome.returncode # 0) =>
           Shown({"stderr"}, last.outcome.stderr)
      /\ last.outcome.returncode = 0 =>
           \A k \in DOMAIN last.echo : last.echo[k].tag # "stderr"

\* a failed command run with check=True whose two streams are both echoed
C10_Witness ==
    /\ pc = "returned"
    /\ last.check
    /\ last.outcome.returncode # 0
    /\ strip(last.outcome.stdout) # <<>>
    /\ strip(last.outcome.stderr) # <<>>
    /\ Shown({"stdout"}, last.outcome.stdout)
    /\ Shown({"stderr"}, last.outcome.stderr)

-----------------------------------------------------------------------------
(* C11, under SpecClean *)

NoDirectoryLeft ==
    /\ fs.build # "dir"
    /\ fs.dist # "dir"
    /\ \A n \in EggNames : fs.egg[n] # "dir"

\* nothing that clean_build_artifacts removes is present
NothingToRemove ==
    /\ fs.build = "none"
    /\ fs.dist = "none"
    /\ \A n \in EggNames : fs.egg[n] # "dir"

CleanTwiceInvariant ==
    /\ pc # "raised"
    /\ pc \in {"clean_2", "cleaned"} => NoDirectoryLeft
    /\ pc = "cleaned" => removed = {}

\* a call on a tree with nothing to remove, and every second call, changes
\* nothing, reports nothing and does not raise
CleanNoOpStep ==
    (pc \in {"clean_1", "clean_2"} /\ (NothingToRemove \/ pc = "clean_2")) =>
      (fs' = fs /\ removed' = {} /\ pc' # "raised")

\* C11: from every tree of build, dist and *.egg-info entries, two calls of
\* clean in a row raise no error, the second removes nothing, no build, dist
\* or *.egg-info directory is left after either, and a call on a tree with
\* nothing to remove is a no-op.
C11_CleanIsIdempotent == []CleanTwiceInvariant /\ [][CleanNoOpStep]_vars

\* cleaned twice, from a tree whose build was a file: an egg-info file stays
C11_Witness ==
    /\ pc = "cleaned"
    /\ Len(log) = 2
    /\ fs.build = "none"
    /\ \E n \in EggNames : fs.egg[n] = "file"

-----------------------------------------------------------------------------
(* C12 *)

StageOrder ==
    <<"Clean", "VerifyVersion", "QualityChecks", "Tests", "Build",
      "CheckPackage", "Publish">>

Rank(name) == CHOOSE r \in DOMAIN StageOrder : StageOrder[r] = name

\* the stage an external command or a prompt belongs to
StageOf(e) ==
    CASE e.name \in QualityCommands -> "QualityChecks"
      [] e.name = TestCommand -> "Tests"
      [] e.name = BuildCommand -> "Build"
      [] e.name = CheckCommand -> "CheckPackage"
      [] e.name \in UploadCommands \cup {PypiPrompt} -> "Publish"
      [] OTHER -> "none"

\* index of the latest stage entry before entry i, 0 when there is none
StageBefore(i) ==
    LET before == {k \in 1..(i - 1) : log[k].kind = "stage"}
    IN  IF before = {} THEN 0 ELSE CHOOSE k \in before : \A m \in before : m <= k

\* C12: the stages entered are in the order Clean, VerifyVersion,
\* QualityChecks, Tests, Build, CheckPackage, Publish, each at most once;
\* every command and prompt happens within its own stage, before the next
\* stage is entered; Clean is entered exactly when --skip-clean is not set,
\* and then first; a run halted at VerifyVersion without --skip-clean has
\* nothing left that clean removes.
C12_StagesInFixedOrder ==
    /\ \A i, j \in DOMAIN log :
         (i < j /\ log[i].kind = "stage" /\ log[j].kind = "stage") =>
           Rank(log[i].name) < Rank(log[j].name)
    /\ \A i \in DOMAIN log :
         /\ log[i].kind = "command" =>
              StageBefore(i) > 0 /\ log[StageBefore(i)].name = StageOf(log[i])
         /\ log[i].kind = "prompt" =>
              /\ StageBefore(i) > 0
              /\ log[StageBefore(i)].name \in
                   IF log[i].name = PypiPrompt
                   THEN {"Publish"} ELSE {"QualityChecks", "Tests"}
         /\ IsStage(i, {"Clean"}) => i = 1
         /\ IsStage(i, {"VerifyVersion"}) => i = IF args.skip_clean THEN 1 ELSE 2
    /\ pc # "clean" => (Entered("Clean") <=> ~args.skip_clean)
    /\ pc \notin {"clean", "version"} => Entered("VerifyVersion")
    /\ (Halted /\ ~args.skip_clean /\ log[Len(log)] = Stage("VerifyVersion")) =>
         NothingToRemove

\* halted at VerifyVersion after clean had removed the leftovers of a build
C12_Witness ==
    /\ Halted
    /\ ~args.skip_clean
    /\ log = <<Stage("Clean"), Stage("VerifyVersion")>>
    /\ {"build", "dist"} \subseteq removed

-----------------------------------------------------------------------------
(* C13 *)

\* run_command, for every outcome and both values of check
ReturnsZeroExit ==
    \A o \in Outcomes, check \in BOOLEAN :
      run_command(o, check).ret = (o.returncode = 0)

\* C13: run_command returns true exactly when the exit code is 0, for both
\* values of check and whatever the two streams hold; a command that exited
\* 0 never halts the run, and a prompt follows it only when an earlier
\* quality check of the same stage had failed.
C13_ExitCodeAloneGates ==
    /\ ReturnsZeroExit
    /\ last # NoCall => last.ret = (last.outcome.returncode = 0)
    /\ \A i \in DOMAIN log :
         (log[i].kind = "command" /\ log[i].returncode = 0) =>
           /\ i = Len(log) =>
                /\ ~Halted
                /\ pc \in {"quality_prompt", "tests_prompt"} =>
                     QualityFailedBefore(i)
           /\ (i < Len(log) /\ log[i + 1].kind = "prompt") =>
                \/ QualityFailedBefore(i)
                \/ log[i + 1].name = PypiPrompt

\* builds with exit code 0 and text on stderr: the run goes on to the check
C13_Witness ==
    /\ last.command = BuildCommand
    /\ last.check
    /\ last.outcome.returncode = 0
    /\ last.outcome.stderr = Letter
    /\ last.ret
    /\ pc = "check"

-----------------------------------------------------------------------------
(* C14 *)

Uploads == {i \in DOMAIN log : IsCommand(i, UploadCommands)}

\* C14: an upload command is issued only after the build command and then
\* the package-check command of the run exited 0, with the two version files
\* in agreement and verified; no build or package check of the run failed;
\* at most one upload command is issued.
C14_UploadOnlyAfterBuildAndCheck ==
    /\ Cardinality(Uploads) <= 1
    /\ \A u \in Uploads :
         /\ \E b, c \in 1..(u - 1) :
              /\ b < c
              /\ IsCommand(b, {BuildCommand}) /\ log[b].returncode = 0
              /\ IsCommand(c, {CheckCommand}) /\ log[c].returncode = 0
         /\ \A i \in DOMAIN log :
              IsCommand(i, {BuildCommand, CheckCommand}) => log[i].returncode = 0
         /\ AgreedVersions # {}
         /\ vv.ret = PyBool(TRUE)
         /\ Entered("VerifyVersion")

\* an upload in a run where failed quality checks and failed tests were
\* both overridden
C14_Witness ==
    /\ Uploads # {}
    /\ \E i, j \in DOMAIN log :
         /\ i < j
         /\ IsPrompt(i, ContinuePrompt)
         /\ IsPrompt(j, ContinuePrompt)
         /\ \A u \in Uploads : j < u

====
